---- MODULE Spec2Model ----
(***************************************************************************)
(* Model of apt-dump-pgf (fusion_sdk/file/TsvFile/DumpPgf.cpp): selection  *)
(* of probesets / probes from a three-level pgf file, optional join with   *)
(* clf coordinates, and the tab-delimited dump.                            *)
(*                                                                         *)
(* A string is a sequence of one-character strings.  Positions inside a    *)
(* string are 0-based, as in std::string.                                  *)
(***************************************************************************)
EXTENDS Integers, Sequences, FiniteSets, TLC

VARIABLES
  splitIn,      \* inputString handed to splitTypes
  splitOut,     \* the inputTypes vector (reused between calls)
  splitPc,      \* "call" before splitTypes ran, "ret" after, "off" otherwise
  matchTypes,   \* requested types of the acceptance check
  matchField,   \* raw type field of the record of the acceptance check
  matchOr,      \* decision of the -or branch
  matchAnd,     \* decision of the default and branch
  matchPc,      \* "call" / "ret" / "off"
  \* the files and options of a run of dumpPgf
  pgfFile,              \* the pgf file: column names per level, header keys, probeset lines
  clfFile,              \* the clf file: none, sequential, or lines to index
  probesetIdFiles,      \* contents of the files of m_ProbesetIdFileNames
  probeIdFiles,         \* contents of the files of m_ProbeIdFileNames
  m_ProbesetTypes,
  m_DumpUnion,
  m_DumpProbesetsOnly,
  NDEBUG,               \* the build: TRUE if assert() is compiled out
  \* the state of the run
  pc,                   \* position in dumpPgf::run
  m_ProbesetIds,
  m_ProbeIds,
  m_GetProbeCoordinates,
  m_OutputColNames,
  m_ProbesetTypeCol,
  m_ProbesetDataCount,
  m_AtomDataCount,
  m_ProbeDataCount,
  loopI,                \* the index i of the id loops of writeMatches
  pgfCursor,            \* probeset line the pgf cursor read last (0: none yet)
  pgfFileTypes,         \* the vector reused by the type scan
  m_ClfX,
  m_ClfY,
  m_Out,                \* lines written to the output file
  err,                  \* the message of Err::errAbort, <<>> while none
  lookups               \* ids handed to findBegin on the pgf file so far

pureVars == <<splitIn, splitOut, splitPc, matchTypes, matchField, matchOr, matchAnd, matchPc>>

inputVars == <<pgfFile, clfFile, probesetIdFiles, probeIdFiles,
               m_ProbesetTypes, m_DumpUnion, m_DumpProbesetsOnly, NDEBUG>>

setupVars == <<m_ProbesetIds, m_ProbeIds, m_GetProbeCoordinates, m_OutputColNames,
               m_ProbesetTypeCol, m_ProbesetDataCount, m_AtomDataCount, m_ProbeDataCount>>

loopVars == <<loopI, pgfCursor, pgfFileTypes, m_ClfX, m_ClfY, m_Out, err, lookups>>

runVars == <<inputVars, pc, setupVars, loopVars>>

vars == <<pureVars, runVars>>

----------------------------------------------------------------------------
(* Bounds *)

MaxLen == 6          \* longest raw string handed to splitTypes
MaxTypeLen == 4      \* longest raw type field of the acceptance check
MaxTypes == 2        \* most requested types (--probeset-type options)
MaxInputLines == 6   \* most lines of the pgf, clf and id files (and type options) of a run
MaxIdFiles == 2      \* most id list files
MaxIdLines == 3      \* most lines of the id list files together
MaxClfLines == 2     \* most lines of a clf file to index
MaxRunLines == 3     \* most lines of the pgf file of a run with any schema and selection

----------------------------------------------------------------------------
(* Strings *)

Alphabet == {"-", ">", "A", "B"}

RECURSIVE StringsOfLen(_)
StringsOfLen(n) ==
  IF n = 0 THEN {<<>>}
  ELSE {Append(s, c) : s \in StringsOfLen(n - 1), c \in Alphabet}

StringsUpTo(n) == UNION {StringsOfLen(k) : k \in 0..n}

SeqsOfLen(S, n) == [1..n -> S]

SeqsUpTo(S, n) == UNION {SeqsOfLen(S, k) : k \in 0..n}

Min(a, b) == IF a <= b THEN a ELSE b

npos == -1

\* std::string::find (pattern, pos): first position >= pos where the pattern starts
StrFind(str, pat, pos) ==
  LET hits == {i \in pos..(Len(str) - Len(pat)) : SubSeq(str, i + 1, i + Len(pat)) = pat}
  IN  IF hits = {} THEN npos ELSE CHOOSE i \in hits : \A j \in hits : i <= j

\* std::string::substr (pos, n) and substr (pos)
Substr(str, pos, n) == SubSeq(str, pos + 1, Min(pos + n, Len(str)))

SubstrFrom(str, pos) == SubSeq(str, pos + 1, Len(str))

\* std::find (first, last, value) != last
Contains(vec, value) == \E i \in 1..Len(vec) : vec[i] = value

----------------------------------------------------------------------------
(* dumpPgf::splitTypes *)

Delim == <<"-", ">">>

AfterDelim_one(substrEnd) == substrEnd + 1

\* substrBegin = substrEnd + 2: continue following the '->'
AfterDelim(substrEnd) == substrEnd + 2

\* "Avoid returning a null string from a terminating '->' or an empty inputString"
KeepLast(subString) == subString # <<>>

KeepInner_always(substrBegin, substrEnd) == TRUE

\* "Avoid null strings from an initial '->' or '->->'"
KeepInner(substrBegin, substrEnd) == substrEnd # substrBegin

\* the for (;;) loop of splitTypes
RECURSIVE splitLoop(_, _, _)
splitLoop(inputString, substrBegin, inputTypes) ==
  LET substrEnd == StrFind(inputString, Delim, substrBegin) IN
  IF substrEnd = npos
  THEN LET subString == SubstrFrom(inputString, substrBegin)
       IN  IF KeepLast(subString) THEN Append(inputTypes, subString) ELSE inputTypes
  ELSE splitLoop(inputString, AfterDelim(substrEnd),
                 IF KeepInner(substrBegin, substrEnd)
                 THEN Append(inputTypes, Substr(inputString, substrBegin, substrEnd - substrBegin))
                 ELSE inputTypes)

\* splitTypes (inputString, inputTypes): the vector is cleared, then filled
splitTypes(inputString, inputTypes) == splitLoop(inputString, 0, <<>>)

----------------------------------------------------------------------------
(* Acceptance of a probeset by its type field (dumpPgf::writeMatches) *)

\* -or: some type of the pgf line is one of the user's types
RECURSIVE orLoop(_, _, _)
orLoop(userTypes, fileTypes, i) ==
  IF i > Len(fileTypes) THEN FALSE
  ELSE IF Contains(userTypes, fileTypes[i]) THEN TRUE
  ELSE orLoop(userTypes, fileTypes, i + 1)

acceptOr_first(userTypes, fileTypes) ==
  Len(fileTypes) > 0 /\ Contains(userTypes, fileTypes[1])

acceptOr(userTypes, fileTypes) == orLoop(userTypes, fileTypes, 1)

\* default and: noMismatchFound after the loop over the user's types
RECURSIVE andLoop(_, _, _)
andLoop(userTypes, fileTypes, i) ==
  IF i > Len(userTypes) THEN TRUE
  ELSE IF ~Contains(fileTypes, userTypes[i]) THEN FALSE
  ELSE andLoop(userTypes, fileTypes, i + 1)

acceptAnd_any(userTypes, fileTypes) == orLoop(userTypes, fileTypes, 1)

acceptAnd(userTypes, fileTypes) == andLoop(userTypes, fileTypes, 1)

----------------------------------------------------------------------------
(* Numbers in the output: operator<< on an int writes its decimal numeral *)

Digits == <<"0", "1", "2", "3", "4", "5", "6", "7", "8", "9">>

RECURSIVE NatToStr(_)
NatToStr(n) ==
  IF n < 10 THEN <<Digits[n + 1]>>
  ELSE NatToStr(n \div 10) \o <<Digits[(n % 10) + 1]>>

IntToStr(n) == IF n < 0 THEN <<"-">> \o NatToStr(0 - n) ELSE NatToStr(n)

----------------------------------------------------------------------------
(* The pgf file as the TsvFile cursor shows it.                            *)
(* A probeset line: probeset_id, the other level-0 fields (data), and its  *)
(* atom lines; an atom line: its fields and its probe lines; a probe line: *)
(* probe_id and the other level-2 fields.                                  *)

NoErr == <<>>

\* position of a probe line: probeset line p, atom a of it, probe l of the atom
Pos(p, a, l) == <<p, a, l>>

\* findBegin (0, "probeset_id", TSV_OP_EQ, id): the matching probeset lines, in file order
FindProbesets(pgf, id) ==
  LET RECURSIVE F(_)
      F(p) == IF p > Len(pgf.lines) THEN <<>>
              ELSE (IF pgf.lines[p].probeset_id = id THEN <<p>> ELSE <<>>) \o F(p + 1)
  IN  F(1)

\* the probe lines below probeset line p, in file order:
\* while (nextLevel (1) == TSV_OK) while (nextLevel (2) == TSV_OK)
ProbesOfProbeset_firstAtom(pgf, p) ==
  LET atoms == pgf.lines[p].atoms
  IN  IF atoms = <<>> THEN <<>>
      ELSE [l \in 1..Len(atoms[1].probes) |-> Pos(p, 1, l)]

ProbesOfProbeset(pgf, p) ==
  LET atoms == pgf.lines[p].atoms
      RECURSIVE A(_)
      A(a) == IF a > Len(atoms) THEN <<>>
              ELSE [l \in 1..Len(atoms[a].probes) |-> Pos(p, a, l)] \o A(a + 1)
  IN  A(1)

ProbeAt(pgf, pos) == pgf.lines[pos[1]].atoms[pos[2]].probes[pos[3]]

\* findBegin (2, "probe_id", TSV_OP_EQ, id): the matching probe lines, in file order
FindProbes(pgf, id) ==
  LET RECURSIVE F(_)
      F(p) == IF p > Len(pgf.lines) THEN <<>>
              ELSE SelectSeq(ProbesOfProbeset(pgf, p), LAMBDA pos : ProbeAt(pgf, pos).probe_id = id)
                   \o F(p + 1)
  IN  F(1)

\* findBegin (0, "probe_id", TSV_OP_EQ, id) on the clf file: the matching lines
FindClf(clf, id) ==
  LET RECURSIVE F(_)
      F(k) == IF k > Len(clf.lines) THEN <<>>
              ELSE (IF clf.lines[k].probe_id = id THEN <<k>> ELSE <<>>) \o F(k + 1)
  IN  F(1)

\* SequentialClfFile::getProbeCoordinates: row-major layout, ids from 1
SequentialCoords(clf, probeId) ==
  [x |-> (probeId - 1) % clf.cols, y |-> (probeId - 1) \div clf.cols]

----------------------------------------------------------------------------
(* dumpPgf::readIdFiles *)

IsNewId_always(idsMap, id) == TRUE

\* probesetIdsMap.insert (make_pair (id, true)) .second
IsNewId(idsMap, id) == id \notin idsMap

\* the loops over the id files and their lines; the map is shared by the files
RECURSIVE readIdLines(_, _, _, _, _)
readIdLines(idFiles, f, k, idsMap, ids) ==
  IF f > Len(idFiles) THEN ids
  ELSE IF k > Len(idFiles[f]) THEN readIdLines(idFiles, f + 1, 1, idsMap, ids)
  ELSE LET id == idFiles[f][k] IN
       IF IsNewId(idsMap, id)
       THEN readIdLines(idFiles, f, k + 1, idsMap \cup {id}, Append(ids, id))
       ELSE readIdLines(idFiles, f, k + 1, idsMap, ids)

readIds(idFiles) == readIdLines(idFiles, 1, 1, {}, <<>>)

----------------------------------------------------------------------------
(* dumpPgf::openInputFiles *)

\* the columns openInputFiles binds with TSV_BIND_REQUIRED before it opens
\* the pgf file: <<level, name>>
RequiredBindings(probesetsOnly) ==
  IF probesetsOnly THEN << <<0, "probeset_id">> >>
  ELSE << <<0, "probeset_id">>, <<2, "probe_id">> >>

\* m_PgfTsv.open (m_PgfFileName) == TSV_OK: every required column is in the
\* schema of its level
OpenPgf(pgf, required) ==
  \A b \in 1..Len(required) :
    \E i \in 1..Len(pgf.cols[required[b][1] + 1]) :
      pgf.cols[required[b][1] + 1][i] = required[b][2]

\* assert (! ((i == 0) && (colName != name)) ) in the loop over the columns
\* cols of a level: TRUE if the loop gets past it.  A build with NDEBUG has
\* no assert.
AssertFirst(ndebug, cols, name) == ndebug \/ cols = <<>> \/ cols[1] = name

\* the level-0 loop: output names and the slot of the type column
ColNames0(pgf) == pgf.cols[1]

\* k at the "type" column: the number of non-id columns before it
TypeCol(pgf) ==
  LET c == pgf.cols[1]
      at == {i \in 1..Len(c) : c[i] = "type"}
      i0 == CHOOSE i \in at : \A j \in at : j <= i
  IN  Cardinality({j \in 1..(i0 - 1) : c[j] # "probeset_id"})

FoundType(pgf) == \E i \in 1..Len(pgf.cols[1]) : pgf.cols[1][i] = "type"

\* "Require type column if user requested -probeset-type"
NeedsType_never(types, foundType) == FALSE

NeedsType(types, foundType) == types # <<>> /\ ~foundType

OutputColNames_xyAlways(pgf, probesetsOnly, clfGiven) ==
  (IF probesetsOnly THEN pgf.cols[1] ELSE pgf.cols[1] \o pgf.cols[2] \o pgf.cols[3])
  \o (IF clfGiven THEN <<"x", "y">> ELSE <<>>)

OutputColNames_atomFirst(pgf, probesetsOnly, clfGiven) ==
  IF probesetsOnly THEN pgf.cols[1]
  ELSE pgf.cols[2] \o pgf.cols[1] \o pgf.cols[3]
       \o (IF clfGiven THEN <<"x", "y">> ELSE <<>>)

\* m_OutputColNames at the end of openInputFiles
OutputColNames(pgf, probesetsOnly, clfGiven) ==
  IF probesetsOnly THEN pgf.cols[1]
  ELSE pgf.cols[1] \o pgf.cols[2] \o pgf.cols[3]
       \o (IF clfGiven THEN <<"x", "y">> ELSE <<>>)

----------------------------------------------------------------------------
(* dumpPgf::getCoordsByIndex, getCoordsBySequentialClf, dumpProbeData,     *)
(* dumpProbesetData                                                        *)

ClfNonUnique_never(resultCount) == FALSE

\* "Fatal error if more than one match was found"
ClfNonUnique(resultCount) == resultCount > 1

NoMatchCoords_keep(x, y) == [x |-> x, y |-> y]

\* "Write null x, y coordinates if no match found": m_ClfX = m_ClfY = -1
NoMatchCoords(x, y) == [x |-> -1, y |-> -1]

\* result: the new m_ClfX, m_ClfY and the message of errAbort, if any
getCoordsByIndex(clf, probeId, x, y) ==
  LET results == FindClf(clf, probeId)
      resultCount == Len(results)
  IN  IF ClfNonUnique(resultCount)
      THEN [x |-> x, y |-> y, err |-> <<"not a unique index", "probe_id", probeId, "clf">>]
      ELSE IF resultCount = 1
      THEN [x |-> clf.lines[results[1]].x, y |-> clf.lines[results[1]].y, err |-> NoErr]
      ELSE [x |-> NoMatchCoords(x, y).x, y |-> NoMatchCoords(x, y).y, err |-> NoErr]

getCoordsBySequentialClf(clf, probeId, x, y) ==
  [x |-> SequentialCoords(clf, probeId).x, y |-> SequentialCoords(clf, probeId).y, err |-> NoErr]

\* (this->*m_GetProbeCoordinates) (m_PgfProbeId)
getProbeCoordinates(how, clf, probeId, x, y) ==
  IF how = "getCoordsByIndex" THEN getCoordsByIndex(clf, probeId, x, y)
  ELSE getCoordsBySequentialClf(clf, probeId, x, y)

CoordField_always(v) == IntToStr(v)

\* "Write null coordinates if not defined": the field is written only if >= 0
CoordField(v) == IF v >= 0 THEN IntToStr(v) ELSE <<>>

\* the run as far as dumpProbeData reads it
RunCtx ==
  [pgf |-> pgfFile, clf |-> clfFile, how |-> m_GetProbeCoordinates,
   nProbeset |-> m_ProbesetDataCount, nAtom |-> m_AtomDataCount, nProbe |-> m_ProbeDataCount]

\* dumpProbeData with the cursor on probe line pos.  The fields before x, y
\* reach the stream before the coordinates are looked up, so a failed
\* lookup leaves an unterminated line.
dumpProbeData(ctx, pos, x, y) ==
  LET probeset == ctx.pgf.lines[pos[1]]
      atom == probeset.atoms[pos[2]]
      probe == atom.probes[pos[3]]
      m_AtomProbeData == atom.data \o probe.data
      fields == <<IntToStr(probeset.probeset_id)>>
                \o SubSeq(probeset.data, 1, ctx.nProbeset)
                \o SubSeq(m_AtomProbeData, 1, ctx.nAtom)
                \o <<IntToStr(probe.probe_id)>>
                \o SubSeq(m_AtomProbeData, ctx.nAtom + 1, ctx.nAtom + ctx.nProbe)
  IN  IF ctx.clf.kind = "none"
      THEN [line |-> [kind |-> "data", fields |-> fields, src |-> pos],
            x |-> x, y |-> y, err |-> NoErr]
      ELSE LET c == getProbeCoordinates(ctx.how, ctx.clf, probe.probe_id, x, y) IN
           IF c.err # NoErr
           THEN [line |-> [kind |-> "cut", fields |-> fields, src |-> pos],
                 x |-> c.x, y |-> c.y, err |-> c.err]
           ELSE [line |-> [kind |-> "data",
                           fields |-> fields \o <<CoordField(c.x), CoordField(c.y)>>,
                           src |-> pos],
                 x |-> c.x, y |-> c.y, err |-> NoErr]

\* dumpProbeData for the probe lines poss[k..], until one fails
RECURSIVE dumpProbes(_, _, _, _)
dumpProbes(ctx, poss, k, acc) ==
  IF k > Len(poss) \/ acc.err # NoErr THEN acc
  ELSE LET d == dumpProbeData(ctx, poss[k], acc.x, acc.y)
       IN  dumpProbes(ctx, poss, k + 1,
                      [lines |-> Append(acc.lines, d.line), x |-> d.x, y |-> d.y, err |-> d.err])

\* dumpProbesetData with the cursor on probeset line p
dumpProbesetData(ctx, probesetsOnly, p, x, y) ==
  IF probesetsOnly
  THEN LET probeset == ctx.pgf.lines[p]
       IN  [lines |-> << [kind |-> "data",
                          fields |-> <<IntToStr(probeset.probeset_id)>>
                                     \o SubSeq(probeset.data, 1, ctx.nProbeset),
                          src |-> <<p>>] >>,
            x |-> x, y |-> y, err |-> NoErr]
  ELSE dumpProbes(ctx, ProbesOfProbeset(ctx.pgf, p), 1,
                  [lines |-> <<>>, x |-> x, y |-> y, err |-> NoErr])

----------------------------------------------------------------------------
(* dumpPgf::run: beginOutput, readIdFiles, openInputFiles,                 *)
(* writeOutputHeader, writeMatches                                         *)

\* beginOutput writes to cerr only
BeginOutput ==
  /\ pc = "beginOutput"
  /\ pc' = "readIdFiles"
  /\ UNCHANGED <<pureVars, inputVars, setupVars, loopVars>>

ReadIdFiles ==
  /\ pc = "readIdFiles"
  /\ m_ProbesetIds' = readIds(probesetIdFiles)
  /\ m_ProbeIds' = readIds(probeIdFiles)
  /\ pc' = "openInputFiles"
  /\ UNCHANGED <<pureVars, inputVars, loopVars, m_GetProbeCoordinates, m_OutputColNames,
                 m_ProbesetTypeCol, m_ProbesetDataCount, m_AtomDataCount, m_ProbeDataCount>>

\* the outcome of openInputFiles: the members it leaves and the failure, if any
OpenInputFilesResult(pgf, clf, types, probesetsOnly, ndebug, typeCol0) ==
  LET cols == pgf.cols
      how == IF clf.kind = "none" THEN "null"
             ELSE IF clf.kind = "sequential" THEN "getCoordsBySequentialClf"
             ELSE "getCoordsByIndex"
      typeCol == IF FoundType(pgf) THEN TypeCol(pgf) ELSE typeCol0
      none == [how |-> "null", names |-> <<>>, typeCol |-> typeCol0,
               nProbeset |-> 0, nAtom |-> 0, nProbe |-> 0, err |-> NoErr]
  IN  IF ~OpenPgf(pgf, RequiredBindings(probesetsOnly))
      THEN [none EXCEPT !.err = <<"Problem opening file", "pgf">>]
      ELSE IF ~AssertFirst(ndebug, cols[1], "probeset_id")
      THEN [none EXCEPT !.how = how, !.names = <<cols[1][1]>>, !.nProbeset = Len(cols[1]),
                        !.err = <<"Assertion failed", "probeset_id">>]
      ELSE IF NeedsType(types, FoundType(pgf))
      THEN [none EXCEPT !.how = how, !.names = ColNames0(pgf), !.typeCol = typeCol,
                        !.nProbeset = Len(cols[1]) - 1,
                        !.err = <<"No type column in pgf file">>]
      ELSE IF ~probesetsOnly /\ ~AssertFirst(ndebug, cols[3], "probe_id")
      THEN [none EXCEPT !.how = how, !.names = cols[1] \o cols[2] \o <<cols[3][1]>>,
                        !.typeCol = typeCol, !.nProbeset = Len(cols[1]) - 1,
                        !.nAtom = Len(cols[2]), !.nProbe = Len(cols[3]),
                        !.err = <<"Assertion failed", "probe_id">>]
      ELSE [how |-> how,
            names |-> OutputColNames(pgf, probesetsOnly, clf.kind # "none"),
            typeCol |-> typeCol,
            nProbeset |-> Len(cols[1]) - 1,
            nAtom |-> IF probesetsOnly THEN 0 ELSE Len(cols[2]),
            nProbe |-> IF probesetsOnly THEN 0 ELSE Len(cols[3]) - 1,
            err |-> NoErr]

OpenInputFiles ==
  /\ pc = "openInputFiles"
  /\ LET r == OpenInputFilesResult(pgfFile, clfFile, m_ProbesetTypes, m_DumpProbesetsOnly,
                                   NDEBUG, m_ProbesetTypeCol)
     IN  /\ m_GetProbeCoordinates' = r.how
         /\ m_OutputColNames' = r.names
         /\ m_ProbesetTypeCol' = r.typeCol
         /\ m_ProbesetDataCount' = r.nProbeset
         /\ m_AtomDataCount' = r.nAtom
         /\ m_ProbeDataCount' = r.nProbe
         /\ err' = r.err
         /\ pc' = IF r.err # NoErr THEN "failed" ELSE "writeOutputHeader"
  /\ UNCHANGED <<pureVars, inputVars, m_ProbesetIds, m_ProbeIds,
                 loopI, pgfCursor, pgfFileTypes, m_ClfX, m_ClfY, m_Out, lookups>>

\* the keys of the pgf header that are copied to the output
PropagatedKeys == {"chip_type", "lib_set_version", "lib_set_name"}

WriteOutputHeader ==
  /\ pc = "writeOutputHeader"
  /\ m_Out' = m_Out
        \o [k \in 1..5 |-> [kind |-> "meta",
                            fields |-> <<(<<"guid", "exec_guid", "exec_version", "create_date", "cmd">>)[k]>>,
                            src |-> <<>>]]
        \o [k \in 1..Len(SelectSeq(pgfFile.headers, LAMBDA key : key \in PropagatedKeys)) |->
              [kind |-> "meta",
               fields |-> <<SelectSeq(pgfFile.headers, LAMBDA key : key \in PropagatedKeys)[k]>>,
               src |-> <<>>]]
        \o << [kind |-> "header", fields |-> m_OutputColNames, src |-> <<>>] >>
  /\ pc' = "writeMatches"
  /\ UNCHANGED <<pureVars, inputVars, setupVars,
                 loopI, pgfCursor, pgfFileTypes, m_ClfX, m_ClfY, err, lookups>>

\* the branch of writeMatches the options select
Selection ==
  IF probesetIdFiles # <<>> THEN "probesetIds"
  ELSE IF probeIdFiles # <<>> THEN "probeIds"
  ELSE IF m_ProbesetTypes # <<>> THEN "types"
  ELSE "all"

IsNoMatch_orOne(resultCount) == resultCount <= 1

\* "Skip if no match"
IsNoMatch(resultCount) == resultCount = 0

IsNonUnique_never(resultCount) == FALSE

\* "Fatal error if more than one match was found"
IsNonUnique(resultCount) == resultCount > 1

\* the effect of one dump on the stream, the coordinates and the run
Dumped(d) ==
  /\ m_Out' = m_Out \o d.lines
  /\ m_ClfX' = d.x
  /\ m_ClfY' = d.y
  /\ err' = d.err
  /\ pc' = IF d.err # NoErr THEN "failed" ELSE pc

\* one pass of the loop over m_ProbesetIds
ProbesetIdStep ==
  /\ pc = "writeMatches" /\ Selection = "probesetIds"
  /\ loopI < Len(m_ProbesetIds)
  /\ LET probesetId == m_ProbesetIds[loopI + 1]
         results == FindProbesets(pgfFile, probesetId)
         resultCount == Len(results)
     IN  /\ lookups' = Append(lookups, probesetId)
         /\ IF IsNoMatch(resultCount)
            THEN /\ loopI' = loopI + 1
                 /\ UNCHANGED <<pc, pgfCursor, m_ClfX, m_ClfY, m_Out, err>>
            ELSE IF IsNonUnique(resultCount)
            THEN /\ err' = <<"not a unique index", "probeset_id", probesetId, "pgf">>
                 /\ pc' = "failed"
                 /\ UNCHANGED <<loopI, pgfCursor, m_ClfX, m_ClfY, m_Out>>
            ELSE /\ pgfCursor' = results[1]
                 /\ Dumped(dumpProbesetData(RunCtx, m_DumpProbesetsOnly, results[1], m_ClfX, m_ClfY))
                 /\ loopI' = IF pc' = "failed" THEN loopI ELSE loopI + 1
  /\ UNCHANGED <<pureVars, inputVars, setupVars, pgfFileTypes>>

\* one pass of the loop over m_ProbeIds
ProbeIdStep ==
  /\ pc = "writeMatches" /\ Selection = "probeIds"
  /\ loopI < Len(m_ProbeIds)
  /\ LET probeId == m_ProbeIds[loopI + 1]
         results == FindProbes(pgfFile, probeId)
         resultCount == Len(results)
     IN  /\ lookups' = Append(lookups, probeId)
         /\ IF IsNoMatch(resultCount)
            THEN /\ loopI' = loopI + 1
                 /\ UNCHANGED <<pc, pgfCursor, m_ClfX, m_ClfY, m_Out, err>>
            ELSE IF IsNonUnique(resultCount)
            THEN /\ err' = <<"not a unique index", "probe_id", probeId, "pgf">>
                 /\ pc' = "failed"
                 /\ UNCHANGED <<loopI, pgfCursor, m_ClfX, m_ClfY, m_Out>>
            ELSE /\ pgfCursor' = results[1][1]
                 /\ Dumped(dumpProbes(RunCtx, <<results[1]>>, 1,
                                      [lines |-> <<>>, x |-> m_ClfX, y |-> m_ClfY, err |-> NoErr]))
                 /\ loopI' = IF pc' = "failed" THEN loopI ELSE loopI + 1
  /\ UNCHANGED <<pureVars, inputVars, setupVars, pgfFileTypes>>

\* the type field of probeset line p: m_ProbesetData[m_ProbesetTypeCol]
TypeField(p) == pgfFile.lines[p].data[m_ProbesetTypeCol + 1]

\* one pass of the -or scan: while (m_PgfTsv.nextLevel (0) == TSV_OK)
TypeOrStep ==
  /\ pc = "writeMatches" /\ Selection = "types" /\ m_DumpUnion
  /\ pgfCursor < Len(pgfFile.lines)
  /\ pgfCursor' = pgfCursor + 1
  /\ pgfFileTypes' = splitTypes(TypeField(pgfCursor + 1), pgfFileTypes)
  /\ IF acceptOr(m_ProbesetTypes, pgfFileTypes')
     THEN Dumped(dumpProbesetData(RunCtx, m_DumpProbesetsOnly, pgfCursor + 1, m_ClfX, m_ClfY))
     ELSE UNCHANGED <<pc, m_ClfX, m_ClfY, m_Out, err>>
  /\ UNCHANGED <<pureVars, inputVars, setupVars, loopI, lookups>>

\* one pass of the default and scan
TypeAndStep ==
  /\ pc = "writeMatches" /\ Selection = "types" /\ ~m_DumpUnion
  /\ pgfCursor < Len(pgfFile.lines)
  /\ pgfCursor' = pgfCursor + 1
  /\ pgfFileTypes' = splitTypes(TypeField(pgfCursor + 1), pgfFileTypes)
  /\ IF acceptAnd(m_ProbesetTypes, pgfFileTypes')
     THEN Dumped(dumpProbesetData(RunCtx, m_DumpProbesetsOnly, pgfCursor + 1, m_ClfX, m_ClfY))
     ELSE UNCHANGED <<pc, m_ClfX, m_ClfY, m_Out, err>>
  /\ UNCHANGED <<pureVars, inputVars, setupVars, loopI, lookups>>

\* one pass of "dump the entire pgf file"
DumpAllStep ==
  /\ pc = "writeMatches" /\ Selection = "all"
  /\ pgfCursor < Len(pgfFile.lines)
  /\ pgfCursor' = pgfCursor + 1
  /\ Dumped(dumpProbesetData(RunCtx, m_DumpProbesetsOnly, pgfCursor + 1, m_ClfX, m_ClfY))
  /\ UNCHANGED <<pureVars, inputVars, setupVars, loopI, pgfFileTypes, lookups>>

\* the loop of the selected branch is over: writeMatches and run return
WriteMatchesReturn ==
  /\ pc = "writeMatches"
  /\ CASE Selection = "probesetIds" -> loopI >= Len(m_ProbesetIds)
       [] Selection = "probeIds" -> loopI >= Len(m_ProbeIds)
       [] OTHER -> pgfCursor >= Len(pgfFile.lines)
  /\ pc' = "done"
  /\ UNCHANGED <<pureVars, inputVars, setupVars, loopVars>>

----------------------------------------------------------------------------
(* The files and options a run may be given *)

Str_main == <<"m", "a", "i", "n">>

Str_rescue == <<"r", "e", "s", "c", "u", "e">>

Str_v1 == <<"v", "1">>

Str_main_rescue_v1 == Str_main \o Delim \o Str_rescue \o Delim \o Str_v1

Str_main_v1 == Str_main \o Delim \o Str_v1

Str_rescue_main == Delim \o Str_rescue \o Delim \o Delim \o Str_main

\* values of the type column of a probeset line
TypeFields == {Str_main_rescue_v1, Str_main_v1, Str_rescue_main}

\* values of --probeset-type
UserTypes == {Str_main, Str_rescue}

Cols0WithType == <<"probeset_id", "type", "probeset_name">>

Cols0NoType == <<"probeset_id", "probeset_name">>

Cols1 == <<"atom_id">>

Cols2 == <<"probe_id", "type">>

\* the fields of a line that no selection reads
FieldOf(colName) == <<colName>>

\* the level-0 fields of a line other than probeset_id, in column order
ProbesetData(cols0, t) ==
  LET others == SelectSeq(cols0, LAMBDA c : c # "probeset_id")
  IN  [k \in 1..Len(others) |-> IF others[k] = "type" THEN t ELSE FieldOf(others[k])]

\* the level-2 fields of a line other than probe_id, in column order
ProbeData(cols2) ==
  LET others == SelectSeq(cols2, LAMBDA c : c # "probe_id")
  IN  [k \in 1..Len(others) |-> FieldOf(others[k])]

\* the probeset ids and the probe ids a pgf or clf line may have
FileIds == 1..2

\* the ids an id file may ask for: those a line may have, and one no line has
RequestIds == FileIds \cup {3}

\* the x and the y a clf line may have
Coords == 0..1

\* the probe lines of an atom with ids from ids, at most n lines
ProbeSeqs(n, ids) ==
  SeqsUpTo({[probe_id |-> i, data |-> <<FieldOf("type")>>] : i \in ids}, n)

RECURSIVE CountProbes(_)
CountProbes(atoms) ==
  IF atoms = <<>> THEN 0 ELSE Len(Head(atoms).probes) + CountProbes(Tail(atoms))

\* the atom lines of a probeset with their probe lines: at most n lines
RECURSIVE AtomSeqs(_, _)
AtomSeqs(n, ids) ==
  IF n <= 0 THEN {<<>>}
  ELSE {<<>>} \cup
       UNION {{<<[data |-> <<FieldOf("atom_id")>>, probes |-> ps]>> \o rest :
                 rest \in AtomSeqs(n - 1 - Len(ps), ids)} : ps \in ProbeSeqs(n - 1, ids)}

\* the probeset lines of a pgf file with all below them: at most n lines
RECURSIVE ProbesetSeqs(_, _, _, _, _)
ProbesetSeqs(n, cols0, types, psIds, ids) ==
  IF n <= 0 THEN {<<>>}
  ELSE {<<>>} \cup
       UNION {{<<[probeset_id |-> i, data |-> ProbesetData(cols0, t), atoms |-> as]>> \o rest :
                 i \in psIds, t \in types,
                 rest \in ProbesetSeqs(n - 1 - Len(as) - CountProbes(as), cols0, types, psIds, ids)} :
              as \in AtomSeqs(n - 1, ids)}

\* the pgf files of at most n lines: level-0 columns cols0, type fields from
\* types, probeset ids from psIds, probe ids from ids
PgfFiles(n, cols0, types, psIds, ids) ==
  {[cols |-> <<cols0, Cols1, Cols2>>,
    headers |-> <<"chip_type", "pgf_format_version", "lib_set_name">>,
    lines |-> ls] : ls \in ProbesetSeqs(n, cols0, types, psIds, ids)}

ClfLineRecs(xs, ys) == [probe_id : FileIds, x : xs, y : ys]

NoClf == [kind |-> "none", cols |-> 0, lines |-> <<>>]

\* a clf file to index, with at most n lines whose coordinates are taken from xs, ys
IndexedClfFiles(n, xs, ys) ==
  {[kind |-> "indexed", cols |-> 0, lines |-> ls] :
     ls \in SeqsUpTo(ClfLineRecs(xs, ys), Min(n, MaxClfLines))}

\* a sequential clf file: two columns, probe ids from 1 in row-major order
SequentialClf == [kind |-> "sequential", cols |-> Cardinality(Coords), lines |-> <<>>]

RECURSIVE CountLines(_)
CountLines(files) ==
  IF files = <<>> THEN 0 ELSE Len(Head(files)) + CountLines(Tail(files))

\* at most k id files with at most n lines in all
RECURSIVE IdFileSeqs(_, _)
IdFileSeqs(n, k) ==
  IF k = 0 THEN {<<>>}
  ELSE {<<>>} \cup
       UNION {{<<f>> \o rest : rest \in IdFileSeqs(n - Len(f), k - 1)} :
              f \in SeqsUpTo(RequestIds, n)}

\* the id files of --probeset-ids or --probe-ids: at least one file, at most n lines
IdFileLists(n) == IdFileSeqs(Min(n, MaxIdLines), MaxIdFiles) \ {<<>>}

\* no call of splitTypes or of the acceptance alone
SplitOff == splitIn = <<>> /\ splitOut = <<>> /\ splitPc = "off"

MatchOff ==
  /\ matchTypes = <<>> /\ matchField = <<>>
  /\ matchOr = FALSE /\ matchAnd = FALSE /\ matchPc = "off"

\* the state of the object when run() is entered
InitRunState ==
  /\ pc = "beginOutput"
  /\ m_ProbesetIds = <<>> /\ m_ProbeIds = <<>>
  /\ m_GetProbeCoordinates = "null"
  /\ m_OutputColNames = <<>>
  /\ m_ProbesetTypeCol = 0
  /\ m_ProbesetDataCount = 0 /\ m_AtomDataCount = 0 /\ m_ProbeDataCount = 0
  /\ loopI = 0 /\ pgfCursor = 0 /\ pgfFileTypes = <<>>
  /\ m_ClfX = 0 /\ m_ClfY = 0
  /\ m_Out = <<>> /\ err = NoErr /\ lookups = <<>>

\* no run: the variables of the run are idle
RunOff ==
  /\ pgfFile = [cols |-> <<Cols0WithType, Cols1, Cols2>>, headers |-> <<>>, lines |-> <<>>]
  /\ clfFile = NoClf
  /\ probesetIdFiles = <<>> /\ probeIdFiles = <<>>
  /\ m_ProbesetTypes = <<>> /\ m_DumpUnion = FALSE /\ m_DumpProbesetsOnly = FALSE
  /\ NDEBUG = FALSE
  /\ InitRunState

\* --probeset-ids or --probe-ids; --probe-ids excludes --probeset-only.
\* The ids of the level that is not selected on are all 1; the clf file,
\* if any, has at most one line.
InitIdSet ==
  /\ SplitOff /\ MatchOff
  /\ clfFile \in {NoClf} \cup IndexedClfFiles(1, {0}, {1})
  /\ \E idFiles \in IdFileLists(MaxInputLines - Len(clfFile.lines)) :
       \/ /\ probesetIdFiles = idFiles /\ probeIdFiles = <<>>
          /\ m_DumpProbesetsOnly \in BOOLEAN
          /\ pgfFile \in PgfFiles(MaxInputLines - Len(clfFile.lines) - CountLines(idFiles),
                                  Cols0WithType, {Str_main}, FileIds, {1})
       \/ /\ probesetIdFiles = <<>> /\ probeIdFiles = idFiles
          /\ m_DumpProbesetsOnly = FALSE
          /\ pgfFile \in PgfFiles(MaxInputLines - Len(clfFile.lines) - CountLines(idFiles),
                                  Cols0WithType, {Str_main}, {1}, FileIds)
  /\ m_ProbesetTypes = <<>> /\ m_DumpUnion = FALSE
  /\ NDEBUG = FALSE
  /\ InitRunState

\* --probeset-type, with or without --or; the pgf file with or without a
\* type column.  The type scan reads no id: all ids are 1.
InitTypeQuery ==
  /\ SplitOff /\ MatchOff
  /\ clfFile \in {NoClf} \cup IndexedClfFiles(MaxInputLines, {0}, {1})
  /\ m_ProbesetTypes \in (SeqsUpTo(UserTypes, MaxTypes) \ {<<>>})
  /\ \/ pgfFile \in PgfFiles(MaxInputLines - Len(clfFile.lines) - Len(m_ProbesetTypes),
                             Cols0WithType, TypeFields, {1}, {1})
     \/ pgfFile \in PgfFiles(MaxInputLines - Len(clfFile.lines) - Len(m_ProbesetTypes),
                             Cols0NoType, {<<>>}, {1}, {1})
  /\ probesetIdFiles = <<>> /\ probeIdFiles = <<>>
  /\ m_DumpUnion \in BOOLEAN /\ m_DumpProbesetsOnly \in BOOLEAN
  /\ NDEBUG = FALSE
  /\ InitRunState

\* no selection option; no clf file, a sequential one, or one to index
InitNone ==
  /\ SplitOff /\ MatchOff
  /\ clfFile \in {NoClf, SequentialClf} \cup IndexedClfFiles(MaxInputLines, Coords, Coords)
  /\ pgfFile \in PgfFiles(MaxInputLines - Len(clfFile.lines), Cols0WithType, {Str_main},
                          FileIds, FileIds)
  /\ probesetIdFiles = <<>> /\ probeIdFiles = <<>>
  /\ m_ProbesetTypes = <<>> /\ m_DumpUnion = FALSE /\ m_DumpProbesetsOnly \in BOOLEAN
  /\ NDEBUG = FALSE
  /\ InitRunState

\* schemas whose identifier column is not the first column, or is missing
Cols0IdSecond == <<"type", "probeset_id", "probeset_name">>

Cols0NoTypeIdSecond == <<"probeset_name", "probeset_id">>

Cols0NoId == <<"type", "probeset_name">>

Cols2IdSecond == <<"type", "probe_id">>

Cols2NoId == <<"type">>

Schemas0 == {Cols0WithType, Cols0NoType, Cols0IdSecond, Cols0NoTypeIdSecond, Cols0NoId}

Schemas2 == {Cols2, Cols2IdSecond, Cols2NoId}

\* the lines of pgf (a file of PgfFiles with Cols0WithType) under the level-0
\* columns cols0 and the level-2 columns cols2
WithSchema(pgf, cols0, cols2) ==
  [cols |-> <<cols0, pgf.cols[2], cols2>>,
   headers |-> pgf.headers,
   lines |-> [p \in 1..Len(pgf.lines) |->
     [probeset_id |-> pgf.lines[p].probeset_id,
      data |-> ProbesetData(cols0, pgf.lines[p].data[1]),
      atoms |-> [a \in 1..Len(pgf.lines[p].atoms) |->
        [data |-> pgf.lines[p].atoms[a].data,
         probes |-> [l \in 1..Len(pgf.lines[p].atoms[a].probes) |->
           [probe_id |-> pgf.lines[p].atoms[a].probes[l].probe_id,
            data |-> ProbeData(cols2)]]]]]]]

\* the x and the y a clf line may have, negative ones included
SignedCoords == -1..1

\* the options that select: none, --probeset-type with or without --or,
\* --probeset-ids, --probe-ids (not with --probeset-only)
InitSelection ==
  \/ /\ m_ProbesetTypes = <<>> /\ m_DumpUnion = FALSE
     /\ probesetIdFiles = <<>> /\ probeIdFiles = <<>>
     /\ m_DumpProbesetsOnly \in BOOLEAN
  \/ /\ m_ProbesetTypes = <<Str_main>> /\ m_DumpUnion \in BOOLEAN
     /\ probesetIdFiles = <<>> /\ probeIdFiles = <<>>
     /\ m_DumpProbesetsOnly \in BOOLEAN
  \/ /\ m_ProbesetTypes = <<>> /\ m_DumpUnion = FALSE
     /\ probesetIdFiles \in {<< <<i>> >> : i \in FileIds} /\ probeIdFiles = <<>>
     /\ m_DumpProbesetsOnly \in BOOLEAN
  \/ /\ m_ProbesetTypes = <<>> /\ m_DumpUnion = FALSE
     /\ probesetIdFiles = <<>> /\ probeIdFiles \in {<< <<i>> >> : i \in FileIds}
     /\ m_DumpProbesetsOnly = FALSE

\* a run with any selection, any schema and either build; the ids of the
\* pgf and clf lines are all 1, the clf file to index has at most one line
Init ==
  /\ SplitOff /\ MatchOff
  /\ NDEBUG \in BOOLEAN
  /\ clfFile \in {NoClf, SequentialClf} \cup
                 {[kind |-> "indexed", cols |-> 0, lines |-> ls] :
                    ls \in SeqsUpTo([probe_id : {1}, x : SignedCoords, y : SignedCoords], 1)}
  /\ \E base \in PgfFiles(MaxRunLines, Cols0WithType, {Str_main, Str_v1}, {1}, {1}),
        cols0 \in Schemas0, cols2 \in Schemas2 :
       pgfFile = WithSchema(base, cols0, cols2)
  /\ InitSelection
  /\ InitRunState

Setup == BeginOutput \/ ReadIdFiles \/ OpenInputFiles \/ WriteOutputHeader

NextIdSet == Setup \/ ProbesetIdStep \/ ProbeIdStep \/ WriteMatchesReturn

NextTypeQuery == Setup \/ TypeOrStep \/ TypeAndStep \/ WriteMatchesReturn

NextNone == Setup \/ DumpAllStep \/ WriteMatchesReturn

SpecIdSet == InitIdSet /\ [][NextIdSet]_vars

SpecTypeQuery == InitTypeQuery /\ [][NextTypeQuery]_vars

SpecNone == InitNone /\ [][NextNone]_vars

Next ==
  \/ Setup
  \/ ProbesetIdStep \/ ProbeIdStep \/ TypeOrStep \/ TypeAndStep \/ DumpAllStep
  \/ WriteMatchesReturn

Spec == Init /\ [][Next]_vars

----------------------------------------------------------------------------
(* Specification of splitTypes alone *)

\* what the reused vector may hold when splitTypes is entered
LeftOver == {<<>>, << <<"A">> >>, << <<"B">>, <<"A">> >>}

InitSplit ==
  /\ splitIn \in StringsUpTo(MaxLen)
  /\ splitOut \in LeftOver
  /\ splitPc = "call"
  /\ MatchOff
  /\ RunOff

SplitTypes ==
  /\ splitPc = "call"
  /\ splitOut' = splitTypes(splitIn, splitOut)
  /\ splitPc' = "ret"
  /\ UNCHANGED <<splitIn, matchTypes, matchField, matchOr, matchAnd, matchPc, runVars>>

NextSplit == SplitTypes

SpecSplit == InitSplit /\ [][NextSplit]_vars

----------------------------------------------------------------------------
(* Specification of the type acceptance alone *)

\* a requested type is a non-empty string (empty options are discarded)
UserTypeDom == StringsOfLen(1)

InitMatch ==
  /\ matchTypes \in (SeqsUpTo(UserTypeDom, MaxTypes) \ {<<>>})
  /\ matchField \in StringsUpTo(MaxTypeLen)
  /\ matchOr = FALSE /\ matchAnd = FALSE
  /\ matchPc = "call"
  /\ SplitOff
  /\ RunOff

MatchTypes ==
  /\ matchPc = "call"
  /\ matchOr' = acceptOr(matchTypes, splitTypes(matchField, <<>>))
  /\ matchAnd' = acceptAnd(matchTypes, splitTypes(matchField, <<>>))
  /\ matchPc' = "ret"
  /\ UNCHANGED <<matchTypes, matchField, splitIn, splitOut, splitPc, runVars>>

NextMatch == MatchTypes

SpecMatch == InitMatch /\ [][NextMatch]_vars

----------------------------------------------------------------------------
(* Properties of splitTypes and of the type acceptance *)

Str_A_B == << <<"A">>, <<"B">> >>

HasDelim(s) == \E k \in 1..(Len(s) - 1) : s[k] = "-" /\ s[k + 1] = ">"

RECURSIVE Concat(_)
Concat(segs) == IF segs = <<>> THEN <<>> ELSE Head(segs) \o Concat(Tail(segs))

\* the characters of s that belong to no "->"
RECURSIVE StripDelims(_)
StripDelims(s) ==
  IF Len(s) = 0 THEN <<>>
  ELSE IF Len(s) >= 2 /\ s[1] = "-" /\ s[2] = ">" THEN StripDelims(SubSeq(s, 3, Len(s)))
  ELSE <<s[1]>> \o StripDelims(Tail(s))

\* segs joined with "->"
RECURSIVE Join(_)
Join(segs) ==
  IF segs = <<>> THEN <<>>
  ELSE IF Len(segs) = 1 THEN segs[1]
  ELSE segs[1] \o Delim \o Join(Tail(segs))

\* C6: after splitTypes, whatever the vector held before, no segment is
\* empty, no segment contains "->", the segments are exactly the characters
\* of the current input outside its delimiters, and "A->->B", "->A->B",
\* "A->B->" all give ["A","B"].
C6_SplitNoEmptySegment ==
  splitPc = "ret" =>
    /\ \A i \in 1..Len(splitOut) : splitOut[i] # <<>> /\ ~HasDelim(splitOut[i])
    /\ Concat(splitOut) = StripDelims(splitIn)
    /\ splitIn \in {<<"A", "-", ">", "-", ">", "B">>,
                    <<"-", ">", "A", "-", ">", "B">>,
                    <<"A", "-", ">", "B", "-", ">">>} => splitOut = Str_A_B

C6_Witness ==
  /\ splitPc = "ret"
  /\ splitIn = <<"A", "-", ">", "-", ">", "B">>
  /\ splitOut = Str_A_B

\* C7: joining the result of splitTypes with "->" and splitting again gives
\* the same segments.
C7_SplitIdempotent ==
  splitPc = "ret" => splitTypes(Join(splitOut), <<>>) = splitOut

C7_Witness ==
  /\ splitPc = "ret"
  /\ Len(splitOut) = 2
  /\ Join(splitOut) # splitIn

\* C5: for a non-empty list of requested types, a record accepted by the
\* and branch is accepted by the -or branch.
C5_AndImpliesOr ==
  matchPc = "ret" => (matchAnd => matchOr)

C5_Witness ==
  /\ matchPc = "ret"
  /\ Len(matchTypes) = 2 /\ matchTypes[1] # matchTypes[2]
  /\ matchAnd /\ matchOr

----------------------------------------------------------------------------
(* Properties of a run *)

IsPrefix(a, b) == Len(a) <= Len(b) /\ a = SubSeq(b, 1, Len(a))

Srcs(lines) == [k \in 1..Len(lines) |-> lines[k].src]

DataLines(out) == SelectSeq(out, LAMBDA line : line.kind = "data")

\* data lines and the line a failed coordinate lookup cut short
RowLines(out) == SelectSeq(out, LAMBDA line : line.kind \in {"data", "cut"})

\* the lines the step appends to the stream
NewLines == SubSeq(m_Out', Len(m_Out) + 1, Len(m_Out'))

LexLess(a, b) ==
  \/ a[1] < b[1]
  \/ a[1] = b[1] /\ a[2] < b[2]
  \/ a[1] = b[1] /\ a[2] = b[2] /\ a[3] < b[3]

\* a set of probe line positions in file order
RECURSIVE InFileOrder(_)
InFileOrder(S) ==
  IF S = {} THEN <<>>
  ELSE LET first == CHOOSE a \in S : \A b \in S \ {a} : LexLess(a, b)
       IN  <<first>> \o InFileOrder(S \ {first})

ProbePositions ==
  {<<p, a, l>> : p \in 1..MaxInputLines, a \in 1..MaxInputLines, l \in 1..MaxInputLines}

\* every probe line of the pgf file
AllProbes ==
  {pos \in ProbePositions :
     /\ pos[1] <= Len(pgfFile.lines)
     /\ pos[2] <= Len(pgfFile.lines[pos[1]].atoms)
     /\ pos[3] <= Len(pgfFile.lines[pos[1]].atoms[pos[2]].probes)}

\* the rows of probeset line p: the line itself with --probeset-only, else its probe lines
GroupOf(p) ==
  IF m_DumpProbesetsOnly THEN << <<p>> >>
  ELSE InFileOrder({pos \in AllProbes : pos[1] = p})

\* the id a requested id is compared with, for the source line of a row
IdOfSrc(src) ==
  IF Selection = "probeIds" THEN ProbeAt(pgfFile, src).probe_id
  ELSE pgfFile.lines[src[1]].probeset_id

\* the source lines whose id is the requested id
MatchesOf(id) ==
  IF Selection = "probeIds"
  THEN {pos \in AllProbes : ProbeAt(pgfFile, pos).probe_id = id}
  ELSE {<<p>> : p \in {q \in 1..Len(pgfFile.lines) : pgfFile.lines[q].probeset_id = id}}

RequestedIds == IF Selection = "probeIds" THEN m_ProbeIds ELSE m_ProbesetIds

IdStepPending == pc = "writeMatches" /\ loopI < Len(RequestedIds)

\* the output field that holds the id the selection is made on
IdField(line) ==
  IF Selection = "probeIds"
  THEN line.fields[m_ProbesetDataCount + m_AtomDataCount + 2]
  ELSE line.fields[1]

\* the step wrote the rows `expected`, or was stopped by a non-unique
\* coordinate lookup after some of them
WroteGroup(expected) ==
  /\ IsPrefix(Srcs(NewLines), expected)
  /\ \A k \in 1..Len(NewLines) :
       NewLines[k].kind = (IF k = Len(NewLines) /\ pc' = "failed" THEN "cut" ELSE "data")
  /\ pc' # "failed" => Srcs(NewLines) = expected /\ err' = NoErr
  /\ pc' = "failed" => NewLines # <<>> /\ err'[4] = "clf"

\* C1: in IdSet selection, a requested id with exactly one match gets exactly
\* its row group (the probe lines of the probeset in file order, the one
\* probeset line with --probeset-only, the one probe line for a probe id);
\* a requested id with no match gets no row and no error, and the loop goes
\* on to the next id.
C1_IdSetOneOrNone ==
  [][IdStepPending =>
       LET id == RequestedIds[loopI + 1]
           matches == MatchesOf(id)
       IN  /\ Cardinality(matches) = 0 =>
                /\ m_Out' = m_Out
                /\ err' = NoErr /\ pc' = "writeMatches"
                /\ loopI' = loopI + 1
           /\ Cardinality(matches) = 1 =>
                LET m == CHOOSE x \in matches : TRUE IN
                /\ WroteGroup(IF Selection = "probeIds" THEN <<m>> ELSE GroupOf(m[1]))
                /\ \A k \in 1..Len(NewLines) : IdField(NewLines[k]) = IntToStr(id)
                /\ pc' # "failed" => pc' = "writeMatches" /\ loopI' = loopI + 1
    ]_vars

C1_Witness ==
  /\ pc = "done" /\ Selection = "probesetIds" /\ ~m_DumpProbesetsOnly
  /\ \E i \in 1..Len(lookups) : Cardinality(MatchesOf(lookups[i])) = 0
  /\ \E i \in 1..Len(lookups) : Cardinality(MatchesOf(lookups[i])) = 1
  /\ Len(DataLines(m_Out)) = 2

\* C2: in IdSet selection, a requested id with more than one match ends the
\* run with the non-unique-index error: nothing is written for it, the rows
\* written before stay, and after the failure no id is looked up and no
\* line is written.
C2_IdSetNonUniqueFatal ==
  [][/\ IdStepPending /\ Cardinality(MatchesOf(RequestedIds[loopI + 1])) > 1 =>
          /\ pc' = "failed"
          /\ err' = <<"not a unique index",
                      IF Selection = "probeIds" THEN "probe_id" ELSE "probeset_id",
                      RequestedIds[loopI + 1], "pgf">>
          /\ m_Out' = m_Out
          /\ lookups' = Append(lookups, RequestedIds[loopI + 1])
     /\ pc = "failed" => m_Out' = m_Out /\ lookups' = lookups /\ pc' = "failed"
    ]_vars

C2_Witness ==
  /\ pc = "failed" /\ err[4] = "pgf"
  /\ Len(DataLines(m_Out)) >= 1
  /\ Len(lookups) = 2 /\ Len(RequestedIds) = 3

\* the ids of the id files, files in the order given, lines in file order
RECURSIVE AllIdLines(_)
AllIdLines(files) == IF files = <<>> THEN <<>> ELSE Head(files) \o AllIdLines(Tail(files))

\* s without the elements that occurred before
RECURSIVE FirstOccurrences(_)
FirstOccurrences(s) ==
  IF s = <<>> THEN <<>>
  ELSE LET front == SubSeq(s, 1, Len(s) - 1)
           last == s[Len(s)]
       IN  IF \E j \in 1..Len(front) : front[j] = last
           THEN FirstOccurrences(front)
           ELSE Append(FirstOccurrences(front), last)

IndexIn(s, v) == CHOOSE i \in 1..Len(s) : s[i] = v

\* C3: the id list of readIdFiles is the ids of the id files in reading
\* order with the first occurrence of each kept; it has no repeated id, and
\* the lookups and the rows follow its order.
C3_IdListFirstOccurrences ==
  pc \notin {"beginOutput", "readIdFiles"} =>
    /\ m_ProbesetIds = FirstOccurrences(AllIdLines(probesetIdFiles))
    /\ m_ProbeIds = FirstOccurrences(AllIdLines(probeIdFiles))
    /\ \A i, j \in 1..Len(RequestedIds) : i # j => RequestedIds[i] # RequestedIds[j]
    /\ IsPrefix(lookups, RequestedIds)
    /\ \A k, n \in 1..Len(RowLines(m_Out)) :
         k < n => IndexIn(RequestedIds, IdOfSrc(RowLines(m_Out)[k].src))
                    <= IndexIn(RequestedIds, IdOfSrc(RowLines(m_Out)[n].src))

C3_Witness ==
  /\ pc = "done" /\ Selection = "probesetIds"
  /\ Len(probesetIdFiles) = 2
  /\ probesetIdFiles[1] # <<>> /\ probesetIdFiles[2] # <<>>
  /\ Len(m_ProbesetIds) = 2 /\ CountLines(probesetIdFiles) = 3
  /\ Len(DataLines(m_Out)) = 2
  /\ DataLines(m_Out)[1].src[1] > DataLines(m_Out)[2].src[1]

\* the segments of the split type field of probeset line p
SegmentsOf(p) ==
  LET segs == splitTypes(TypeField(p), <<>>) IN {segs[i] : i \in 1..Len(segs)}

Requested == {m_ProbesetTypes[i] : i \in 1..Len(m_ProbesetTypes)}

Accepted(p) ==
  IF m_DumpUnion THEN Requested \cap SegmentsOf(p) # {}
  ELSE Requested \subseteq SegmentsOf(p)

\* C4: the type scan visits the probeset lines one by one in file order and
\* writes the row group of a line, once, exactly when the line is accepted:
\* with --or when some requested type is a segment of its type field, by
\* default when every requested type is.  For ["main","rescue"]:
\* "main->rescue->v1" is written by default, "main->v1" only with --or.
C4_TypeQueryAccepts ==
  [][pc = "writeMatches" /\ pgfCursor < Len(pgfFile.lines) =>
       LET p == pgfCursor + 1 IN
       /\ pgfCursor' = p
       /\ Accepted(p) => WroteGroup(GroupOf(p))
       /\ ~Accepted(p) => m_Out' = m_Out /\ pc' = pc /\ err' = err
       /\ m_ProbesetTypes = <<Str_main, Str_rescue>> =>
            /\ TypeField(p) = Str_main_rescue_v1 => WroteGroup(GroupOf(p))
            /\ TypeField(p) = Str_main_v1 /\ ~m_DumpUnion => m_Out' = m_Out
            /\ TypeField(p) = Str_main_v1 /\ m_DumpUnion => WroteGroup(GroupOf(p))
    ]_vars

C4_Witness ==
  /\ pc = "done" /\ ~m_DumpUnion /\ m_DumpProbesetsOnly
  /\ m_ProbesetTypes = <<Str_main, Str_rescue>>
  /\ Len(pgfFile.lines) = 2
  /\ TypeField(1) = Str_main_v1 /\ TypeField(2) = Str_main_rescue_v1
  /\ Srcs(DataLines(m_Out)) = << <<2>> >>

\* every row of the unfiltered dump, in file order
AllRows ==
  IF m_DumpProbesetsOnly THEN [p \in 1..Len(pgfFile.lines) |-> <<p>>]
  ELSE InFileOrder(AllProbes)

\* C8: without selection, the rows written are at any time the first rows
\* of the file order (one per probe line, or one per probeset line with
\* --probeset-only; none twice), and a run that returns has written them all.
C8_UnfilteredOneRowEach ==
  /\ IsPrefix(Srcs(RowLines(m_Out)), AllRows)
  /\ \A k \in 1..Len(RowLines(m_Out)) :
       RowLines(m_Out)[k].fields[1]
         = IntToStr(pgfFile.lines[RowLines(m_Out)[k].src[1]].probeset_id)
  /\ pc = "done" => Srcs(DataLines(m_Out)) = AllRows

C8_Witness ==
  /\ pc = "done" /\ ~m_DumpProbesetsOnly
  /\ \E p \in 1..Len(pgfFile.lines) : pgfFile.lines[p].atoms = <<>>
  /\ \E p \in 1..Len(pgfFile.lines) :
       \E a \in 1..Len(pgfFile.lines[p].atoms) : pgfFile.lines[p].atoms[a].probes = <<>>
  /\ Len(DataLines(m_Out)) = 2

ClfMatches(probeId) ==
  Cardinality({k \in 1..Len(clfFile.lines) : clfFile.lines[k].probe_id = probeId})

\* C9: with getCoordsByIndex, a row whose probe id has no line in the clf
\* file ends with two empty fields, whatever the row before resolved, and
\* the coordinates are then the undefined pair.
C9_IndexedNoMatchBlank ==
  m_GetProbeCoordinates = "getCoordsByIndex" =>
    LET rows == DataLines(m_Out) IN
    \A k \in 1..Len(rows) :
      Len(rows[k].src) = 3 /\ ClfMatches(ProbeAt(pgfFile, rows[k].src).probe_id) = 0 =>
        /\ Len(rows[k].fields) = Len(m_OutputColNames)
        /\ rows[k].fields[Len(rows[k].fields) - 1] = <<>>
        /\ rows[k].fields[Len(rows[k].fields)] = <<>>
        /\ k = Len(rows) /\ pc # "failed" => m_ClfX = -1 /\ m_ClfY = -1

C9_Witness ==
  /\ m_GetProbeCoordinates = "getCoordsByIndex"
  /\ Len(DataLines(m_Out)) = 2
  /\ LET rows == DataLines(m_Out) IN
     /\ ClfMatches(ProbeAt(pgfFile, rows[1].src).probe_id) = 1
     /\ rows[1].fields[Len(rows[1].fields)] = IntToStr(1)
     /\ ClfMatches(ProbeAt(pgfFile, rows[2].src).probe_id) = 0
     /\ rows[2].fields[Len(rows[2].fields)] = <<>>

\* C10: with getCoordsByIndex, a probe id with more than one line in the clf
\* file ends the run with the non-unique-index error: its row is cut before
\* the coordinate fields, and it is the last thing written.
C10_IndexedNonUniqueFatal ==
  m_GetProbeCoordinates = "getCoordsByIndex" =>
    LET rows == RowLines(m_Out) IN
    /\ \A k \in 1..Len(rows) :
         Len(rows[k].src) = 3 /\ ClfMatches(ProbeAt(pgfFile, rows[k].src).probe_id) > 1 =>
           /\ rows[k].kind = "cut"
           /\ Len(rows[k].fields) = Len(m_OutputColNames) - 2
           /\ k = Len(rows)
           /\ pc = "failed"
           /\ err = <<"not a unique index", "probe_id",
                      ProbeAt(pgfFile, rows[k].src).probe_id, "clf">>
    /\ \A k \in 1..Len(rows) : rows[k].kind = "cut" => k = Len(rows) /\ pc = "failed"

C10_Witness ==
  /\ pc = "failed" /\ err[4] = "clf"
  /\ m_GetProbeCoordinates = "getCoordsByIndex"
  /\ Len(DataLines(m_Out)) = 1
  /\ Len(RowLines(m_Out)) = 2

----------------------------------------------------------------------------
(* Properties of the header line and of the rows under it *)

HeaderLines(out) == SelectSeq(out, LAMBDA line : line.kind = "header")

EndsWithXY(names) ==
  Len(names) >= 2 /\ names[Len(names) - 1] = "x" /\ names[Len(names)] = "y"

\* the names before the last two
ButLastTwo(names) == SubSeq(names, 1, Len(names) - 2)

HasXY(names) == \E j \in 1..Len(names) : names[j] \in {"x", "y"}

ClfGiven == clfFile.kind # "none"

\* C11 as the spec states it: the header line ends with "x", "y" if and
\* only if a clf file was given, with --probeset-only as without.
C11_HeaderXYIffClf ==
  \A k \in 1..Len(HeaderLines(m_Out)) :
    EndsWithXY(HeaderLines(m_Out)[k].fields) <=> ClfGiven

\* C11: the header line ends with the injected names "x", "y" if and only
\* if a clf file was given and the run is not --probeset-only; in every other
\* case no name of the header line is "x" or "y".  The names before them are
\* those of the pgf file.
C11_HeaderXYIffClfAndProbes ==
  \A k \in 1..Len(HeaderLines(m_Out)) :
    LET names == HeaderLines(m_Out)[k].fields IN
    IF ClfGiven /\ ~m_DumpProbesetsOnly
    THEN /\ EndsWithXY(names)
         /\ ButLastTwo(names) = pgfFile.cols[1] \o pgfFile.cols[2] \o pgfFile.cols[3]
    ELSE /\ ~HasXY(names)
         /\ m_DumpProbesetsOnly => names = pgfFile.cols[1]

\* a --probeset-only run with a clf file that wrote a header line without
\* "x", "y" and a row under it
C11_Witness ==
  /\ pc = "done" /\ m_DumpProbesetsOnly /\ ClfGiven
  /\ Len(HeaderLines(m_Out)) = 1
  /\ ~HasXY(HeaderLines(m_Out)[1].fields)
  /\ Len(DataLines(m_Out)) >= 1

IsNumeral(field) ==
  field # <<>> /\ \A j \in 1..Len(field) : \E d \in 1..Len(Digits) : field[j] = Digits[d]

\* the field of a row that stands under the column name of the header line:
\* the id of the line the row was read from, a coordinate, a type field, or
\* the field of the column of that name
FieldFits(name, field, src) ==
  CASE name = "probeset_id" -> field = IntToStr(pgfFile.lines[src[1]].probeset_id)
    [] name = "probe_id" -> Len(src) = 3 /\ field = IntToStr(ProbeAt(pgfFile, src).probe_id)
    [] name \in {"x", "y"} -> field = <<>> \/ IsNumeral(field)
    [] name = "type" -> field \in {Str_main, Str_v1, FieldOf("type")}
    [] OTHER -> field = FieldOf(name)

\* C12: every row written by dumpProbesetData or dumpProbeData has as many
\* fields as the header line has names, and each field stands under the
\* name of its column.
C12_RowsMatchHeader ==
  \A k \in 1..Len(DataLines(m_Out)) :
    LET row == DataLines(m_Out)[k] IN
    /\ Len(row.fields) = Len(m_OutputColNames)
    /\ \A j \in 1..Len(row.fields) : FieldFits(m_OutputColNames[j], row.fields[j], row.src)

\* the schemas of the pgf file put the identifier column first
IdsFirst ==
  /\ pgfFile.cols[1] # <<>> /\ pgfFile.cols[1][1] = "probeset_id"
  /\ pgfFile.cols[3] # <<>> /\ pgfFile.cols[3][1] = "probe_id"

\* where the identifier columns are first, the rows do stand under the
\* header line
RowsMatchHeaderIdsFirst == IdsFirst => C12_RowsMatchHeader

\* openInputFiles has returned
SetupDone == pc \in {"writeOutputHeader", "writeMatches", "done"} \/ m_Out # <<>>

\* what openInputFiles makes of the same files in the other mode
OtherMode ==
  OpenInputFilesResult(pgfFile, clfFile, m_ProbesetTypes, ~m_DumpProbesetsOnly,
                       NDEBUG, 0)

\* C13: for one pgf file, the output column names of a --probeset-only run
\* are a proper prefix of those of a full run: whenever openInputFiles
\* succeeds in both modes, the shorter list is the level-0 names in the
\* order of the file and the longer list starts with it.
C13_ParentOnlyNamesArePrefix ==
  SetupDone /\ OtherMode.err = NoErr =>
    LET parentOnly == IF m_DumpProbesetsOnly THEN m_OutputColNames ELSE OtherMode.names
        full == IF m_DumpProbesetsOnly THEN OtherMode.names ELSE m_OutputColNames
    IN  /\ IsPrefix(parentOnly, full)
        /\ Len(parentOnly) < Len(full)
        /\ parentOnly = pgfFile.cols[1]

\* a full run with a clf file that returned, its header line longer than
\* the level-0 names by the level-1 and level-2 names and "x", "y"
C13_Witness ==
  /\ pc = "done" /\ ~m_DumpProbesetsOnly /\ ClfGiven
  /\ OtherMode.err = NoErr
  /\ Len(OtherMode.names) = 3
  /\ Len(m_OutputColNames) = 8
  /\ Len(HeaderLines(m_Out)) = 1 /\ HeaderLines(m_Out)[1].fields = m_OutputColNames

\* the schema of a level the run reads does not start with the identifier
\* column of the level: level 0 in either mode, level 2 unless --probeset-only
IdNotFirst ==
  \/ pgfFile.cols[1] = <<>> \/ pgfFile.cols[1][1] # "probeset_id"
  \/ /\ ~m_DumpProbesetsOnly
     /\ pgfFile.cols[3] = <<>> \/ pgfFile.cols[3][1] # "probe_id"

SchemaErrors == {<<"Problem opening file", "pgf">>,
                 <<"Assertion failed", "probeset_id">>, <<"Assertion failed", "probe_id">>}

\* C14: whenever the first column of level 0 is not probeset_id, with
\* --probeset-only as without, or the first column of level 2 is not probe_id
\* in a run that reads level 2, openInputFiles fails, with a schema error
\* unless the missing type column is found first, and nothing is ever written.
C14_IdNotFirstIsSchemaError ==
  IdNotFirst =>
    /\ m_Out = <<>>
    /\ pc \notin {"writeOutputHeader", "writeMatches", "done"}
    /\ pc = "failed" => err \in SchemaErrors \cup {<<"No type column in pgf file">>}

\* a build that keeps the asserts does fail so
IdNotFirstIsSchemaErrorWithAsserts == ~NDEBUG => C14_IdNotFirstIsSchemaError

NoTypeColumn == <<"No type column in pgf file">>

\* C15: a run with --probeset-type on a pgf file without "type" column at
\* level 0 fails in openInputFiles and nothing is ever written; the error is
\* the missing-column error unless the pgf file could not be opened or the
\* assert on the first level-0 column stopped the run before.  A run without
\* --probeset-type never fails with that error: on such a file it gets past
\* openInputFiles whenever the identifier columns allow it.
C15_TypeColumnRequiredByTypes ==
  /\ m_ProbesetTypes # <<>> /\ ~FoundType(pgfFile) =>
       /\ m_Out = <<>>
       /\ pc \notin {"writeOutputHeader", "writeMatches", "done"}
       /\ pc = "failed" =>
            IF ~OpenPgf(pgfFile, RequiredBindings(m_DumpProbesetsOnly))
            THEN err = <<"Problem opening file", "pgf">>
            ELSE IF ~AssertFirst(NDEBUG, pgfFile.cols[1], "probeset_id")
            THEN err = <<"Assertion failed", "probeset_id">>
            ELSE err = NoTypeColumn
  /\ m_ProbesetTypes = <<>> =>
       /\ err # NoTypeColumn
       /\ ~FoundType(pgfFile) /\ ~IdNotFirst /\ pc = "failed" => m_Out # <<>>

\* a --probeset-type run stopped by the missing type column, the pgf file
\* opened and with lines to scan
C15_Witness ==
  /\ pc = "failed" /\ err = NoTypeColumn
  /\ m_ProbesetTypes # <<>> /\ ~FoundType(pgfFile)
  /\ Len(pgfFile.lines) >= 2
  /\ m_Out = <<>>

\* a coordinate value as dumpProbeData is meant to render it
Rendered(field, v) ==
  /\ field = <<>> <=> v < 0
  /\ v >= 0 => field = IntToStr(v)

\* the rows that carry coordinate fields
CoordRows == IF ClfGiven /\ ~m_DumpProbesetsOnly THEN DataLines(m_Out) ELSE <<>>

XField(row) == row.fields[Len(row.fields) - 1]

YField(row) == row.fields[Len(row.fields)]

\* C16: the x field and the y field of a row are each empty exactly when
\* the stored value is negative and its numeral otherwise, one independently
\* of the other: a row whose probe id has one line in the clf file renders
\* that line's x and y so, a negative one blank like those of a probe id
\* without line; the arithmetic variant's values are rendered the same way;
\* and the last such row shows the values m_ClfX, m_ClfY hold.
C16_CoordFieldBySign ==
  /\ \A k \in 1..Len(CoordRows) :
       LET row == CoordRows[k]
           probeId == ProbeAt(pgfFile, row.src).probe_id
           found == FindClf(clfFile, probeId)
       IN  /\ Len(row.fields) = Len(m_OutputColNames)
           /\ IF clfFile.kind = "sequential"
              THEN /\ Rendered(XField(row), SequentialCoords(clfFile, probeId).x)
                   /\ Rendered(YField(row), SequentialCoords(clfFile, probeId).y)
              ELSE IF Len(found) = 1
              THEN /\ Rendered(XField(row), clfFile.lines[found[1]].x)
                   /\ Rendered(YField(row), clfFile.lines[found[1]].y)
              ELSE XField(row) = <<>> /\ YField(row) = <<>>
  /\ CoordRows # <<>> =>
       /\ Rendered(XField(CoordRows[Len(CoordRows)]), m_ClfX)
       /\ Rendered(YField(CoordRows[Len(CoordRows)]), m_ClfY)

\* a row whose probe id has one line in the clf file, with a negative x and
\* a y of zero: the x field is empty, the y field is "0"
C16_Witness ==
  /\ Len(CoordRows) >= 1
  /\ m_GetProbeCoordinates = "getCoordsByIndex"
  /\ Len(clfFile.lines) = 1 /\ clfFile.lines[1].x = -1 /\ clfFile.lines[1].y = 0
  /\ ProbeAt(pgfFile, CoordRows[1].src).probe_id = clfFile.lines[1].probe_id
  /\ XField(CoordRows[1]) = <<>>
  /\ YField(CoordRows[1]) = <<"0">>
  /\ m_ClfX = -1 /\ m_ClfY = 0

====
